---- MODULE Spec2Model ----
(***************************************************************************)
(* A model of ruff, a codec for the farbfeld image format.                 *)
(*                                                                         *)
(*   src/src/pixel.rs     Pixel, PixelIter, PixelRefIter                    *)
(*   src/src/parser.rs    parse_pixel, parse_farb (nom 3 macros), i_to_res  *)
(*   src/src/farbfeld.rs  Farbfeld::new, from_read, row, save               *)
(*   src/src/error.rs     ErrorKind                                         *)
(*                                                                         *)
(* A u32 is the pair <<hi, lo>> of its 16-bit halves (value hi*65536+lo),  *)
(* so that the 32-bit product of two dimensions keeps its width.  Bytes    *)
(* are 0..255, a buffer is a sequence of bytes.  A usize is 64 bits wide:  *)
(* `as usize` loses nothing and sums of lengths never wrap.                *)
(***************************************************************************)
EXTENDS Integers, Sequences, FiniteSets, TLC

VARIABLES
    build,    \* "debug" (overflow checks on) or "release" (u32 arithmetic wraps)
    buff,     \* the bytes of the reader / writer (Vec<u8>)
    farb,     \* the result of the last Farbfeld::new / Farbfeld::from_read
    rowRes,   \* the last call of Farbfeld::row: the image, the row asked for, the result
    hist,     \* what new / from_read / save were called with and left behind
    it,       \* the pixel iterator: its form, its pixel and its field curr
    yielded,  \* the values the iterator has returned so far, in order
    ret,      \* what the last call of next returned
    calls     \* how many times next was called

vars == <<build, buff, farb, rowRes, hist, it, yielded, ret, calls>>

----------------------------------------------------------------------------
(* Bounds of the model.                                                    *)

\* the longest pixel sequence given to Farbfeld::new or laid out in a buffer
MaxPixels == 4
\* dimensions 0..MaxDim are tried (beside two that overflow a u32 product)
MaxDim == 2
\* the most new / from_read / save calls of one run
MaxOps == 3
\* the most calls of next on one iterator
MaxNext == 6

----------------------------------------------------------------------------
(* u32 arithmetic on 16-bit halves.                                        *)

U32(n) == <<n \div 65536, n % 65536>>

\* the 32-bit product of two 16-bit values, as <<hi, lo>>
Mul16(x, y) ==
    LET p1 == x * (y \div 256)
        p0 == x * (y % 256)
        t  == (p1 % 256) * 256 + p0
    IN  <<p1 \div 256 + t \div 65536, t % 65536>>

\* whether the product of two u32 values does not fit in a u32
MulOverflows(a, b) ==
    LET c == Mul16(a[2], b[2])
        d == Mul16(a[1], b[2])
        e == Mul16(a[2], b[1])
    IN  \/ (a[1] > 0 /\ b[1] > 0)
        \/ d[1] > 0
        \/ e[1] > 0
        \/ d[2] + e[2] + c[1] >= 65536

\* a * b modulo 2^32
WrappingMul(a, b) ==
    LET c == Mul16(a[2], b[2])
        d == Mul16(a[1], b[2])
        e == Mul16(a[2], b[1])
    IN  <<(d[2] + e[2] + c[1]) % 65536, c[2]>>

\* a >= b on u32
U32Geq(a, b) == a[1] > b[1] \/ (a[1] = b[1] /\ a[2] >= b[2])

----------------------------------------------------------------------------
(* Pixel (pixel.rs).                                                       *)

Pixel(r, g, b, a) == [red |-> r, green |-> g, blue |-> b, alpha |-> a]

\* Option<u16>
Some(v) == [some |-> TRUE, val |-> v]
None == [some |-> FALSE, val |-> 0]

\* next with blue handed out before green
PixelIter_next_swapped(self) ==
    CASE self.curr = 0 -> [iter |-> [self EXCEPT !.curr = 1], item |-> Some(self.pixel.red)]
      [] self.curr = 1 -> [iter |-> [self EXCEPT !.curr = 2], item |-> Some(self.pixel.blue)]
      [] self.curr = 2 -> [iter |-> [self EXCEPT !.curr = 3], item |-> Some(self.pixel.green)]
      [] self.curr = 3 -> [iter |-> [self EXCEPT !.curr = 4], item |-> Some(self.pixel.alpha)]
      [] OTHER -> [iter |-> self, item |-> None]

\* impl Iterator for PixelIter: next.  The new iterator and what is returned.
PixelIter_next(self) ==
    CASE self.curr = 0 -> [iter |-> [self EXCEPT !.curr = 1], item |-> Some(self.pixel.red)]
      [] self.curr = 1 -> [iter |-> [self EXCEPT !.curr = 2], item |-> Some(self.pixel.green)]
      [] self.curr = 2 -> [iter |-> [self EXCEPT !.curr = 3], item |-> Some(self.pixel.blue)]
      [] self.curr = 3 -> [iter |-> [self EXCEPT !.curr = 4], item |-> Some(self.pixel.alpha)]
      [] OTHER -> [iter |-> self, item |-> None]

\* impl Iterator for PixelRefIter: next.  The item is a reference to a field of
\* the borrowed pixel: the field's name, read through Deref.
PixelRefIter_next(self) ==
    CASE self.curr = 0 -> [iter |-> [self EXCEPT !.curr = 1], item |-> [some |-> TRUE, ref |-> "red"]]
      [] self.curr = 1 -> [iter |-> [self EXCEPT !.curr = 2], item |-> [some |-> TRUE, ref |-> "green"]]
      [] self.curr = 2 -> [iter |-> [self EXCEPT !.curr = 3], item |-> [some |-> TRUE, ref |-> "blue"]]
      [] self.curr = 3 -> [iter |-> [self EXCEPT !.curr = 4], item |-> [some |-> TRUE, ref |-> "alpha"]]
      [] OTHER -> [iter |-> self, item |-> [some |-> FALSE, ref |-> ""]]

\* *reference, for a reference PixelRefIter handed out
Deref(pixel, item) == IF item.some THEN Some(pixel[item.ref]) ELSE None

\* impl ExactSizeIterator: len, the same for both iterators
ExactSize_len(self) == 4 - self.curr

\* Pixel::into_iter and Pixel::iter
into_iter(pixel) == [form |-> "into_iter", pixel |-> pixel, curr |-> 0]
iter(pixel) == [form |-> "iter", pixel |-> pixel, curr |-> 0]
NoIter == [form |-> "none", pixel |-> Pixel(0, 0, 0, 0), curr |-> 0]

\* the values Pixel::iter yields until it returns None, as save's flat_map takes them
RECURSIVE Drain(_)
Drain(self) ==
    LET n == PixelRefIter_next(self)
    IN  IF n.item.some
        THEN <<Deref(self.pixel, n.item).val>> \o Drain(n.iter)
        ELSE <<>>

----------------------------------------------------------------------------
(* error.rs and the results of the library's operations.                   *)

\* nom::Needed
Unknown == [known |-> FALSE, size |-> 0]
Size(n) == [known |-> TRUE, size |-> n]

Zero == <<0, 0>>

\* Result<Farbfeld>: Ok(Farbfeld {width, height, pixels}), Err(Error(kind)) with
\* nom's ErrorKind for a NomError and Needed for a NotEnoughDataError, or the
\* panic of an overflow check
OkFarb(w, h, p) ==
    [tag |-> "Ok", kind |-> "", nom |-> "", needed |-> Unknown,
     width |-> w, height |-> h, pixels |-> p]
ErrFarb(kind, nom, needed) ==
    [tag |-> "Err", kind |-> kind, nom |-> nom, needed |-> needed,
     width |-> Zero, height |-> Zero, pixels |-> <<>>]
Panicked ==
    [tag |-> "Panic", kind |-> "", nom |-> "", needed |-> Unknown,
     width |-> Zero, height |-> Zero, pixels |-> <<>>]
NoFarb ==
    [tag |-> "None", kind |-> "", nom |-> "", needed |-> Unknown,
     width |-> Zero, height |-> Zero, pixels |-> <<>>]

----------------------------------------------------------------------------
(* Farbfeld::new (farbfeld.rs).                                            *)

\* width * height is a u32 product: a debug build panics when it overflows,
\* a release build wraps.
Farbfeld_new(width, height, pixels) ==
    IF build = "debug" /\ MulOverflows(width, height)
    THEN Panicked
    ELSE IF WrappingMul(width, height) # U32(Len(pixels))
         THEN ErrFarb("InvalidFarbfeldDimensions", "", Unknown)
         ELSE OkFarb(width, height, pixels)

----------------------------------------------------------------------------
(* The parser (parser.rs), written with the macros of nom 3.               *)

\* b"farbfeld"
Magic == <<102, 97, 114, 98, 102, 101, 108, 100>>

Take(i, n) == SubSeq(i, 1, n)
Drop(i, n) == SubSeq(i, n + 1, Len(i))
Min(a, b) == IF a < b THEN a ELSE b

\* nom::IResult: Done(rest, out), Incomplete(needed), Error(kind); "Panic" when
\* the parser's expression panicked
Done(rest, out) ==
    [t |-> "Done", rest |-> rest, out |-> out, needed |-> Unknown, kind |-> ""]
Incomplete(needed) ==
    [t |-> "Incomplete", rest |-> <<>>, out |-> <<>>, needed |-> needed, kind |-> ""]
Error(kind) ==
    [t |-> "Error", rest |-> <<>>, out |-> <<>>, needed |-> Unknown, kind |-> kind]
Unwound ==
    [t |-> "Panic", rest |-> <<>>, out |-> <<>>, needed |-> Unknown, kind |-> ""]

\* a comparison that looks at the length before the bytes
compare_length_first(i, t) ==
    IF Len(i) < Len(t) THEN "Incomplete"
    ELSE IF Take(i, Len(t)) # t THEN "Error"
    ELSE "Ok"

\* a comparison that takes a short input for a mismatch
compare_short_is_error(i, t) ==
    IF Len(i) < Len(t) \/ Take(i, Len(t)) # t THEN "Error" ELSE "Ok"

\* nom's Compare for byte slices, as tag! uses it: the common prefix decides
\* first, the length second
compare(i, t) ==
    LET m == Min(Len(i), Len(t))
    IN  IF Take(i, m) # Take(t, m) THEN "Error"
        ELSE IF m < Len(t) THEN "Incomplete"
        ELSE "Ok"

\* tag!("farbfeld")
tag_result(i, c) ==
    CASE c = "Ok" -> Done(Drop(i, Len(Magic)), Take(i, Len(Magic)))
      [] c = "Incomplete" -> Incomplete(Size(Len(Magic)))
      [] OTHER -> Error("Tag")

tag(i) == tag_result(i, compare(i, Magic))

\* nom::be_u32, the value as <<hi, lo>>
be_u32(i) ==
    IF Len(i) < 4
    THEN Incomplete(Size(4))
    ELSE Done(Drop(i, 4), <<i[1] * 256 + i[2], i[3] * 256 + i[4]>>)

\* the two bytes read low byte first
be_u16_le(i) ==
    IF Len(i) < 2
    THEN Incomplete(Size(2))
    ELSE Done(Drop(i, 2), i[2] * 256 + i[1])

\* nom::be_u16
be_u16(i) ==
    IF Len(i) < 2
    THEN Incomplete(Size(2))
    ELSE Done(Drop(i, 2), i[1] * 256 + i[2])

\* take!(8)
take(i, cnt) ==
    IF Len(i) < cnt
    THEN Incomplete(Size(cnt))
    ELSE Done(Drop(i, cnt), Take(i, cnt))

\* do_parse!: what a step that is not Done makes of the whole parser, after
\* `consumed` bytes were taken by the steps before it: the bytes needed are
\* counted from the start of the parser
do_parse_fail(r, consumed) ==
    IF r.t = "Incomplete" /\ r.needed.known
    THEN Incomplete(Size(consumed + r.needed.size))
    ELSE r

\* do_parse!: one step `r >> rest`.  A step that is Done hands its result to the
\* rest of the parser, any other result ends it.
do_parse(r, consumed, rest(_)) ==
    IF r.t # "Done" THEN do_parse_fail(r, consumed) ELSE rest(r)

\* named!(parse_pixel): four be_u16 in the order red, green, blue, alpha
parse_pixel(i) ==
    do_parse(be_u16(i), 0, LAMBDA red :
    do_parse(be_u16(red.rest), Len(i) - Len(red.rest), LAMBDA green :
    do_parse(be_u16(green.rest), Len(i) - Len(green.rest), LAMBDA blue :
    do_parse(be_u16(blue.rest), Len(i) - Len(blue.rest), LAMBDA alpha :
    Done(alpha.rest, Pixel(red.out, green.out, blue.out, alpha.out))))))

\* flat_map!: the second parser runs on what the first one took, the rest is
\* what the first one left
flat_map_apply(r, r2) == IF r2.t # "Done" THEN r2 ELSE Done(r.rest, r2.out)
flat_map_first(r) == IF r.t # "Done" THEN r ELSE flat_map_apply(r, parse_pixel(r.out))

\* flat_map!(take!(8), parse_pixel)
flat_map(i) == flat_map_first(take(i, 8))

\* many0!: what one turn of its loop makes of the result r of its parser on
\* `input`, with `res` collected so far and `i` the input many0! started on.
\* Either the loop goes on or it breaks with ret.
many0_match(i, input, res, r) ==
    CASE r.t = "Error" -> [brk |-> TRUE, ret |-> Done(input, res)]
      [] r.t = "Incomplete" /\ ~r.needed.known ->
            [brk |-> TRUE, ret |-> Incomplete(Unknown)]
      [] r.t = "Incomplete" /\ r.needed.known ->
            [brk |-> TRUE,
             ret |-> Incomplete(Size(r.needed.size + (Len(i) - Len(input))))]
      [] OTHER ->
            IF Len(r.rest) = Len(input)
            THEN [brk |-> TRUE, ret |-> Error("Many0")]
            ELSE [brk |-> FALSE, input |-> r.rest, res |-> Append(res, r.out)]

\* the same with an Incomplete parser taken for the end of the sequence
many0_match_drop(i, input, res, r) ==
    CASE r.t = "Error" -> [brk |-> TRUE, ret |-> Done(input, res)]
      [] r.t = "Incomplete" -> [brk |-> TRUE, ret |-> Done(input, res)]
      [] OTHER ->
            IF Len(r.rest) = Len(input)
            THEN [brk |-> TRUE, ret |-> Error("Many0")]
            ELSE [brk |-> FALSE, input |-> r.rest, res |-> Append(res, r.out)]

\* a turn that runs the parser on an empty input too
many0_turn_no_eof(i, input, res) == many0_match(i, input, res, flat_map(input))

\* a turn that drops what is left when the parser is Incomplete
many0_turn_drops_incomplete(i, input, res) ==
    IF Len(input) = 0
    THEN [brk |-> TRUE, ret |-> Done(input, res)]
    ELSE many0_match_drop(i, input, res, flat_map(input))

\* many0!: one turn of the loop, which ends at the end of the input
many0_turn(i, input, res) ==
    IF Len(input) = 0
    THEN [brk |-> TRUE, ret |-> Done(input, res)]
    ELSE many0_match(i, input, res, flat_map(input))

many0_next(i, turn, loop(_, _, _)) ==
    IF turn.brk THEN turn.ret ELSE loop(i, turn.input, turn.res)

RECURSIVE many0_loop(_, _, _)
many0_loop(i, input, res) == many0_next(i, many0_turn(i, input, res), many0_loop)

\* many0!(flat_map!(take!(8), parse_pixel))
many0(i) == many0_loop(i, i, <<>>)

\* expr_res!(Farbfeld::new(width, height, pixels)): the Err of the expression,
\* whatever it is, becomes nom's ErrorKind::ExprRes
expr_res(i, e) ==
    CASE e.tag = "Ok" -> Done(i, e)
      [] e.tag = "Panic" -> Unwound
      [] OTHER -> Error("ExprRes")

\* named!(parse_farb)
parse_farb(i) ==
    do_parse(tag(i), 0, LAMBDA magic :
    do_parse(be_u32(magic.rest), Len(i) - Len(magic.rest), LAMBDA width :
    do_parse(be_u32(width.rest), Len(i) - Len(width.rest), LAMBDA height :
    do_parse(many0(height.rest), Len(i) - Len(height.rest), LAMBDA pixels :
    do_parse(expr_res(pixels.rest, Farbfeld_new(width.out, height.out, pixels.out)),
             Len(i) - Len(pixels.rest), LAMBDA res :
    Done(res.rest, res.out))))))

\* i_to_res
i_to_res(res) ==
    CASE res.t = "Incomplete" -> ErrFarb("NotEnoughDataError", "", res.needed)
      [] res.t = "Done" -> res.out
      [] res.t = "Error" -> ErrFarb("NomError", res.kind, Unknown)
      [] OTHER -> Panicked

----------------------------------------------------------------------------
(* Farbfeld::from_read, row and save (farbfeld.rs).                        *)

\* from_read on a reader that holds `read` and reads to its end without error
from_read(read) == i_to_res(parse_farb(read))

\* Option<&[Pixel]>, or the panic of an overflow check or of slicing out of bounds
SomeRow(slice) == [t |-> "Some", slice |-> slice]
NoneRow == [t |-> "None", slice |-> <<>>]
RowPanic == [t |-> "Panic", slice |-> <<>>]

\* Farbfeld::row.  offset .. offset + width lies in the pixels only when both
\* are below 65536 here, the pixel sequences of the model being shorter.
row(self, n) ==
    IF U32Geq(n, self.height)
    THEN NoneRow
    ELSE IF build = "debug" /\ MulOverflows(n, self.width)
    THEN RowPanic
    ELSE LET offset == WrappingMul(n, self.width)
         IN  IF offset[1] = 0 /\ self.width[1] = 0
                  /\ offset[2] + self.width[2] <= Len(self.pixels)
             THEN SomeRow(SubSeq(self.pixels, offset[2] + 1, offset[2] + self.width[2]))
             ELSE RowPanic

\* write_u32::<BigEndian> and write_u16::<BigEndian>
write_u32(v) == <<v[1] \div 256, v[1] % 256, v[2] \div 256, v[2] % 256>>
write_u16(v) == <<v \div 256, v % 256>>

RECURSIVE write_all_u16(_)
write_all_u16(vs) ==
    IF vs = <<>> THEN <<>> ELSE write_u16(Head(vs)) \o write_all_u16(Tail(vs))

\* the values of self.pixels.iter().flat_map(Pixel::iter)
RECURSIVE flat_channels(_)
flat_channels(pixels) ==
    IF pixels = <<>> THEN <<>>
    ELSE Drain(iter(Head(pixels))) \o flat_channels(Tail(pixels))

\* save without the height field
save_no_height(self) ==
    Magic \o write_u32(self.width) \o write_all_u16(flat_channels(self.pixels))

\* Farbfeld::save into an empty Vec<u8>, which takes every write whole
save(self) ==
    Magic \o write_u32(self.width) \o write_u32(self.height)
          \o write_all_u16(flat_channels(self.pixels))

----------------------------------------------------------------------------
(* The inputs tried.                                                       *)

\* two pixels, the second with eight different bytes, and the same as bytes
PixelList == <<Pixel(1, 1, 1, 1), Pixel(258, 772, 1286, 1800)>>
ByteList == <<<<0, 1, 0, 1, 0, 1, 0, 1>>, <<1, 2, 3, 4, 5, 6, 7, 8>>>>

\* the sequences of 0..n elements that alternate between the two of `list`
Runs(list, n) == {[j \in 1..k |-> list[((s + j) % 2) + 1]] : s \in 0..1, k \in 0..n}

\* 65536, 2^31 and 2^31 + 1: their products with 2 or with each other overflow
BigDims == {<<1, 0>>, <<32768, 0>>, <<32768, 1>>}
Dims == {U32(n) : n \in 0..MaxDim} \cup BigDims
RowArgs == Dims \cup {U32(MaxDim + 1)}

\* the same dimensions as the four bytes of a header field
DimBytes == {<<0, 0, 0, n>> : n \in 0..MaxDim}
            \cup {<<0, 1, 0, 0>>, <<128, 0, 0, 0>>, <<128, 0, 0, 1>>}

Range(f) == {f[x] : x \in DOMAIN f}

RECURSIVE Flatten(_)
Flatten(ss) == IF ss = <<>> THEN <<>> ELSE Head(ss) \o Flatten(Tail(ss))

Headers == {Magic \o w \o h : w \in DimBytes, h \in DimBytes}

\* a header, whole pixels, and up to 7 bytes of one more pixel
Streams ==
    {hd \o Flatten(ps) \o Take(<<1, 2, 3, 4, 5, 6, 7, 8>>, t) :
        hd \in Headers, ps \in Runs(ByteList, MaxPixels), t \in 0..7}

\* buffers that end within the header
Short == {Take(hd, n) : hd \in Headers, n \in 0..15}

\* a byte of the magic replaced
Damaged ==
    UNION {{[b EXCEPT ![c] = 120] : c \in 1..Min(8, Len(b))} :
            b \in Short \cup {hd \o Flatten(ps) : hd \in Headers,
                                                 ps \in Runs(ByteList, 1)}}

Inputs == Streams \cup Short \cup Damaged

----------------------------------------------------------------------------
(* The state machine: one run builds or reads an image and may save it,    *)
(* read it back and ask for rows; or it iterates over one pixel.           *)

NoRow == [called |-> FALSE, self |-> NoFarb, n |-> Zero, res |-> NoneRow]

Entry(op, w, h, p, read, res, written) ==
    [op |-> op, width |-> w, height |-> h, pixels |-> p, read |-> read,
     farb |-> res, buff |-> written]

Init ==
    /\ build \in {"debug", "release"}
    /\ buff = <<>>
    /\ farb = NoFarb
    /\ rowRes = NoRow
    /\ hist = <<>>
    /\ it = NoIter
    /\ yielded = <<>>
    /\ ret = None
    /\ calls = 0

\* Farbfeld::new(w, h, p)
New(w, h, p) ==
    /\ hist = <<>>
    /\ it.form = "none"
    /\ farb' = Farbfeld_new(w, h, p)
    /\ hist' = Append(hist, Entry("new", w, h, p, <<>>, farb', buff))
    /\ UNCHANGED <<build, buff, rowRes, it, yielded, ret, calls>>

\* Farbfeld::from_read on a reader holding b
FromRead(b) ==
    /\ it.form = "none"
    /\ Len(hist) < MaxOps
    /\ buff' = b
    /\ farb' = from_read(b)
    /\ hist' = Append(hist, Entry("from_read", Zero, Zero, <<>>, b, farb', b))
    /\ UNCHANGED <<build, rowRes, it, yielded, ret, calls>>

\* from_read on some input, first thing
ReadInput == \E b \in Inputs : hist = <<>> /\ FromRead(b)

\* from_read on what save wrote
ReadBack ==
    /\ hist # <<>>
    /\ hist[Len(hist)].op = "save"
    /\ FromRead(buff)

\* farb.save(&mut Vec::new())
Save ==
    /\ farb.tag = "Ok"
    /\ Len(hist) < MaxOps
    /\ buff' = save(farb)
    /\ hist' = Append(hist, Entry("save", Zero, Zero, <<>>, <<>>, farb, buff'))
    /\ UNCHANGED <<build, farb, rowRes, it, yielded, ret, calls>>

\* farb.row(n)
Row(n) ==
    /\ farb.tag = "Ok"
    /\ rowRes' = [called |-> TRUE, self |-> farb, n |-> n, res |-> row(farb, n)]
    /\ UNCHANGED <<build, buff, farb, hist, it, yielded, ret, calls>>

\* pixel.into_iter()
IntoIter(p) ==
    /\ hist = <<>>
    /\ it.form = "none"
    /\ it' = into_iter(p)
    /\ UNCHANGED <<build, buff, farb, rowRes, hist, yielded, ret, calls>>

\* pixel.iter()
Iter(p) ==
    /\ hist = <<>>
    /\ it.form = "none"
    /\ it' = iter(p)
    /\ UNCHANGED <<build, buff, farb, rowRes, hist, yielded, ret, calls>>

\* it.next() on a PixelIter
NextOwned ==
    /\ it.form = "into_iter"
    /\ calls < MaxNext
    /\ LET n == PixelIter_next(it)
       IN  /\ it' = n.iter
           /\ ret' = n.item
           /\ yielded' = IF n.item.some THEN Append(yielded, n.item.val) ELSE yielded
    /\ calls' = calls + 1
    /\ UNCHANGED <<build, buff, farb, rowRes, hist>>

\* it.next() on a PixelRefIter, the reference read at once
NextRef ==
    /\ it.form = "iter"
    /\ calls < MaxNext
    /\ LET n == PixelRefIter_next(it)
           v == Deref(it.pixel, n.item)
       IN  /\ it' = n.iter
           /\ ret' = v
           /\ yielded' = IF v.some THEN Append(yielded, v.val) ELSE yielded
    /\ calls' = calls + 1
    /\ UNCHANGED <<build, buff, farb, rowRes, hist>>

Next ==
    \/ \E w \in Dims, h \in Dims, p \in Runs(PixelList, MaxPixels) : New(w, h, p)
    \/ ReadInput
    \/ ReadBack
    \/ Save
    \/ \E n \in RowArgs : Row(n)
    \/ \E p \in Range(PixelList) : IntoIter(p)
    \/ \E p \in Range(PixelList) : Iter(p)
    \/ NextOwned
    \/ NextRef

Spec == Init /\ [][Next]_vars

----------------------------------------------------------------------------
(* What the properties speak of.                                           *)

\* the product of w and h, as a number and not as a u32, is k
Area(w, h, k) == ~MulOverflows(w, h) /\ WrappingMul(w, h) = U32(k)

\* the big-endian u32 at bytes at .. at + 3 of b
HeaderField(b, at) == <<b[at] * 256 + b[at + 1], b[at + 2] * 256 + b[at + 3]>>

\* b starts with the magic and holds both dimensions
HasHeader(b) == Len(b) >= 16 /\ Take(b, 8) = Magic

\* the bytes of b after the header
Payload(b) == Len(b) - 16

\* magic, width, height and exactly width * height pixels of 8 bytes each
WellFormed(b) ==
    /\ HasHeader(b)
    /\ Payload(b) % 8 = 0
    /\ Area(HeaderField(b, 9), HeaderField(b, 13), Payload(b) \div 8)

\* one of the leading bytes of b is not the byte of the magic at its place
DiffersFromMagic(b) == \E k \in 1..Min(8, Len(b)) : b[k] # Magic[k]

\* the calls of `op` made so far
Called(op) == {i \in 1..Len(hist) : hist[i].op = op}

FormatMismatch(f) == f.tag = "Err" /\ f.kind = "NomError" /\ f.nom = "Tag"
IncompleteData(f) == f.tag = "Err" /\ f.kind = "NotEnoughDataError"
DimensionMismatch(f) == f.tag = "Err" /\ f.kind = "InvalidFarbfeldDimensions"

----------------------------------------------------------------------------
(* C1: for w, h and p with length(p) = w * h, decoding the bytes that      *)
(* encoding Image::new(w, h, p) produced succeeds and yields the same      *)
(* width, height and pixel sequence.                                       *)
C1_RoundTrip ==
    \A i \in Called("new") :
        (/\ Area(hist[i].width, hist[i].height, Len(hist[i].pixels))
         /\ i + 2 <= Len(hist)
         /\ hist[i + 1].op = "save"
         /\ hist[i + 2].op = "from_read")
        => /\ hist[i + 2].farb.tag = "Ok"
           /\ hist[i + 2].farb.width = hist[i].width
           /\ hist[i + 2].farb.height = hist[i].height
           /\ hist[i + 2].farb.pixels = hist[i].pixels

C1_Witness ==
    /\ Len(hist) = 3
    /\ hist[1].op = "new" /\ hist[2].op = "save" /\ hist[3].op = "from_read"
    /\ Len(hist[1].pixels) = 4
    /\ hist[1].width = U32(2)
    /\ farb.tag = "Ok"

(* C2: decoding a well-formed buffer succeeds, and encoding the image      *)
(* decoded from it reproduces the buffer byte for byte.                    *)
C2_DecodeEncode ==
    \A i \in Called("from_read") :
        WellFormed(hist[i].read)
        => /\ hist[i].farb.tag = "Ok"
           /\ (i < Len(hist) /\ hist[i + 1].op = "save")
                => hist[i + 1].buff = hist[i].read

C2_Witness ==
    /\ Len(hist) >= 2
    /\ hist[1].op = "from_read" /\ hist[2].op = "save"
    /\ WellFormed(hist[1].read)
    /\ Len(hist[1].read) = 48
    /\ buff = hist[1].read

(* C3: Image::new(w, h, p) fails with the dimension mismatch exactly when  *)
(* the product of w and h differs from length(p), and otherwise succeeds   *)
(* and stores w, h and p.                                                  *)
C3_NewChecksProduct ==
    \A i \in Called("new") :
        IF Area(hist[i].width, hist[i].height, Len(hist[i].pixels))
        THEN hist[i].farb = OkFarb(hist[i].width, hist[i].height, hist[i].pixels)
        ELSE DimensionMismatch(hist[i].farb)

(* C4, as stated: decode of a buffer, of any length, that does not start   *)
(* with the 8 bytes of the magic returns the format mismatch.              *)
C4_AsStated ==
    \A i \in Called("from_read") :
        ~(Len(hist[i].read) >= 8 /\ Take(hist[i].read, 8) = Magic)
        => FormatMismatch(hist[i].farb)

(* C4, amended: decode of a buffer one of whose first 8 bytes (or of all   *)
(* its bytes, when it has fewer) differs from the magic's returns the      *)
(* format mismatch, nom's Tag error.                                       *)
C4_MismatchIsFormatError ==
    \A i \in Called("from_read") :
        DiffersFromMagic(hist[i].read) => FormatMismatch(hist[i].farb)

C4_Witness ==
    /\ hist # <<>>
    /\ hist[1].op = "from_read"
    /\ Len(hist[1].read) = 3
    /\ DiffersFromMagic(hist[1].read)
    /\ FormatMismatch(farb)

(* C5, as stated: decode of a buffer shorter than 16 bytes returns the     *)
(* incomplete-data error.                                                  *)
C5_AsStated ==
    \A i \in Called("from_read") :
        Len(hist[i].read) < 16 => IncompleteData(hist[i].farb)

(* C5, amended: decode of a buffer shorter than 16 bytes whose first bytes *)
(* agree with the magic returns the incomplete-data error.                 *)
C5_ShortIsIncomplete ==
    \A i \in Called("from_read") :
        (Len(hist[i].read) < 16 /\ ~DiffersFromMagic(hist[i].read))
        => IncompleteData(hist[i].farb)

C5_Witness ==
    /\ hist # <<>>
    /\ hist[1].op = "from_read"
    /\ Len(hist[1].read) = 5
    /\ ~DiffersFromMagic(hist[1].read)
    /\ IncompleteData(farb)

(* C6: decode of a buffer with the magic, a header and a whole number of   *)
(* pixels other than width * height returns the dimension mismatch,        *)
(* InvalidFarbfeldDimensions.                                              *)
C6_CountMismatchIsDimensionError ==
    \A i \in Called("from_read") :
        (/\ HasHeader(hist[i].read)
         /\ Payload(hist[i].read) % 8 = 0
         /\ ~WellFormed(hist[i].read))
        => DimensionMismatch(hist[i].farb)

C8_RowReturnsRow ==
    rowRes.called
    => IF U32Geq(rowRes.n, rowRes.self.height)
       THEN rowRes.res = NoneRow
       ELSE /\ rowRes.res.t = "Some"
            /\ (rowRes.n[1] = 0 /\ rowRes.self.width[1] = 0)
                 => rowRes.res.slice =
                      SubSeq(rowRes.self.pixels,
                             rowRes.n[2] * rowRes.self.width[2] + 1,
                             rowRes.n[2] * rowRes.self.width[2] + rowRes.self.width[2])

C10_AsStated ==
    \A i \in Called("from_read") :
        LET b == hist[i].read
        IN  (/\ HasHeader(b)
             /\ Payload(b) % 8 # 0
             /\ Area(HeaderField(b, 9), HeaderField(b, 13), Payload(b) \div 8))
            => /\ hist[i].farb.tag = "Ok"
               /\ hist[i].farb = from_read(Take(b, Len(b) - (Payload(b) % 8)))

(* C10, amended: decode of a header, exactly width * height pixels and 1   *)
(* to 7 more bytes drops nothing: it returns the incomplete-data error     *)
(* and no image.                                                           *)
C10_TrailingIsIncomplete ==
    \A i \in Called("from_read") :
        LET b == hist[i].read
        IN  (/\ HasHeader(b)
             /\ Payload(b) % 8 # 0
             /\ Area(HeaderField(b, 9), HeaderField(b, 13), Payload(b) \div 8))
            => IncompleteData(hist[i].farb)

C10_Witness ==
    /\ hist # <<>>
    /\ hist[1].op = "from_read"
    /\ HasHeader(hist[1].read)
    /\ Len(hist[1].read) = 16 + 8 * 4 + 3
    /\ HeaderField(hist[1].read, 9) = U32(2)
    /\ HeaderField(hist[1].read, 13) = U32(2)
    /\ IncompleteData(farb)

====
